---------------------------- MODULE Spec2Model ----------------------------
(***************************************************************************)
(* A model of the toy LSM storage engine (core crate): the memtable        *)
(* (memtable.rs), the write-ahead log and its replay (wal.rs), the record  *)
(* codec (utils.rs) and the engine (database.rs).                          *)
(*                                                                         *)
(* Byte vectors.  A key is a sequence of bytes.  A value is the vector     *)
(* vec![byte; len], written [byte |-> b, len |-> n]; the code reads of a   *)
(* value only its length and copies its content.  An Option is a sequence  *)
(* of length 0 (None) or 1 (Some).                                         *)
(*                                                                         *)
(* Files.  A file is the sequence of the fields written to it, one atom    *)
(* per write_all call of the code: [ts |-> t] (16 bytes), [tomb |-> b]     *)
(* (1 byte), [klen |-> n] and [vlen |-> n] (8 bytes each), [key |-> k],    *)
(* [val |-> v].  A BufWriter moves whole write_all calls only, so a file   *)
(* on disk always ends at an atom boundary.  Bytes(atoms) is the file byte  *)
(* by byte; the codec of utils.rs is modelled on bytes.                    *)
(***************************************************************************)
EXTENDS Integers, Sequences, FiniteSets, TLC

VARIABLES
    mt,        \* MemTable under test: [entries, data_size]
    latest,    \* ghost: key -> Option of the last operation applied to mt
    nops,      \* ghost: number of operations applied to mt
    mstat      \* "ok", "wrapped" (a subtraction wrapped), "panic" (it aborted)

VARIABLES
    now,          \* the wall clock, in microseconds
    dir,          \* the working directory: file name -> atoms on disk
    st,           \* where the process is: "down", "replay", "remove", "up", "swapping"
    wal,          \* Database.wal: [path, buf, linked]
    rw_memtable,  \* Database.rw_memtable
    ro_memtable,  \* Database.ro_memtable
    new_wal,      \* load_dir: new_wal
    memtable,     \* load_dir: memtable
    paths,        \* load_dir: the sorted scan, from the file being replayed on
    iter_at,      \* load_dir: the iterator's atom offset in Head(paths)
    remove_files, \* load_dir: remove_files
    log,          \* ghost: every engine put/delete call so far, see Call
    inst,         \* ghost: Len(log) when the running engine instance was made
    starts,       \* ghost: the number of calls of Database::init so far
    startDir,     \* ghost: the .wal files present when load_dir was entered, until the next call
    last          \* ghost: how the last call ended: "none", "init", "put", "delete",
                  \* "error" (a put or delete returned Err), "init_error" (init
                  \* returned Err), "crash", "panic", or "running" while a call
                  \* is in swap_memtable

VARIABLES
    phase,     \* where a codec or WAL round trip is: "idle" when none runs
    rec,       \* the record given to CommonBinaryFormatRef::write
    stream,    \* the bytes it wrote
    short,     \* a proper prefix of stream: a stream cut in the middle of the record
    out,       \* the results of the successive reads of stream (of the WAL file)
    short_out  \* the results of the successive reads of short

memvars == <<mt, latest, nops, mstat>>

codecvars == <<phase, rec, stream, short, out, short_out>>

dbvars == <<now, dir, st, wal, rw_memtable, ro_memtable, new_wal, memtable, paths,
            iter_at, remove_files, log, inst, starts, startDir, last>>

vars == <<memvars, dbvars, codecvars>>

-----------------------------------------------------------------------------
(* Bounds and program constants *)

MaxMemOps == 4

\* put/delete calls on the WAL of one round trip
MaxWalCalls == 3

\* engine put/delete calls in one behaviour
MaxOps == 2

\* records in the .wal files present at the first start
MaxInitRecs == 2

\* records one load_dir replays
MaxReplay == 6

\* calls of Database::init in one behaviour
MaxStarts == 2

\* the clock when the first start begins, and where the model stops it
FirstClock == 12

MaxClock == 13

\* DatabaseOptions.memtable_threshold as tests::swapping_memtable_works sets it
Threshold == 256

\* mem::size_of::<MemTableEntry>(): Vec<u8> 24 + Option<Vec<u8>> 24 + u128 16
EntryOverhead == 64

SmallLen == 2

BigLen == 8150

KeyA == <<1>>

KeyB == <<1, 2>>

KeyC == <<2>>

Keys == {KeyA, KeyB, KeyC}

SmallValue == [byte |-> 1, len |-> SmallLen]

BigValue == [byte |-> 2, len |-> BigLen]

Values == {SmallValue, BigValue}

MemStamps == 1 .. 2

None == <<>>

Some(v) == <<v>>

-----------------------------------------------------------------------------
(* memtable.rs *)

\* MemTableEntry
MemTableEntry(key, value, timestamp) ==
    [key |-> key, value |-> value, timestamp |-> timestamp]

\* MemTable::new
MemTableNew == [entries |-> <<>>, data_size |-> 0]

\* Ord for [u8]: byte-wise lexicographic, a proper prefix is smaller
RECURSIVE KeyLess(_, _)
KeyLess(a, b) ==
    IF Len(b) = 0 THEN FALSE
    ELSE IF Len(a) = 0 THEN TRUE
    ELSE IF a[1] # b[1] THEN a[1] < b[1]
    ELSE KeyLess(Tail(a), Tail(b))

\* slice::binary_search_by_key over entries[lo+1 .. hi]: <<TRUE, idx>> when the
\* key is found at idx, <<FALSE, idx>> with idx the insertion point otherwise
\* (indices are 1-based here)
RECURSIVE BinarySearch(_, _, _, _)
BinarySearch(entries, key, lo, hi) ==
    IF lo >= hi THEN <<FALSE, lo + 1>>
    ELSE LET mid == lo + ((hi - lo) \div 2)
             k == entries[mid + 1].key
         IN  IF k = key THEN <<TRUE, mid + 1>>
             ELSE IF KeyLess(k, key) THEN BinarySearch(entries, key, mid + 1, hi)
             ELSE BinarySearch(entries, key, lo, mid)

\* MemTable::get_index
GetIndex(m, key) == BinarySearch(m.entries, key, 0, Len(m.entries))

\* a Vec::insert that pushes at the end instead
InsertAtEnd(s, idx, e) == Append(s, e)

\* Vec::insert(idx, e)
InsertAt(s, idx, e) == SubSeq(s, 1, idx - 1) \o <<e>> \o SubSeq(s, idx, Len(s))

\* A usize (64 bits) is held by a representative of its residue modulo 2^64:
\* n >= 0 stands for n, and n < 0 stands for 2^64 + n, the value a wrapped
\* subtraction leaves.  Addition and subtraction modulo 2^64 are then integer
\* addition and subtraction of representatives.

\* usize subtraction as the release build computes it (wrapping)
USub(a, b) == a - b

\* usize addition
UAdd(a, b) == a + b

\* a > b for usize a and a small b >= 0
UGreater(a, b) == a < 0 \/ a > b

\* a - b leaves the range of usize (b is small and >= 0)
Underflows(a, b) == a >= 0 /\ b > a

\* data_size after MemTable::put
PutSize(m, key, value) ==
    LET r == GetIndex(m, key)
    IN  IF r[1]
        THEN LET cur == m.entries[r[2]].value
             IN  IF cur # None
                 THEN IF cur[1].len < value.len
                      THEN UAdd(m.data_size, value.len - cur[1].len)
                      ELSE USub(m.data_size, cur[1].len - value.len)
                 ELSE m.data_size
        ELSE UAdd(m.data_size, Len(key) + value.len + EntryOverhead)

\* the entry MemTable::put writes
PutEntry(timestamp, key, value) == MemTableEntry(key, Some(value), timestamp)

\* MemTable::put
MemPut(m, timestamp, key, value) ==
    LET r == GetIndex(m, key)
    IN  [entries |->
            IF r[1]
            THEN [m.entries EXCEPT ![r[2]] = PutEntry(timestamp, key, value)]
            ELSE InsertAt(m.entries, r[2], PutEntry(timestamp, key, value)),
         data_size |-> PutSize(m, key, value)]

\* the amount MemTable::put subtracts from data_size (0 when it subtracts nothing)
PutSubtracts(m, key, value) ==
    LET r == GetIndex(m, key)
    IN  IF r[1] /\ m.entries[r[2]].value # None
           /\ ~(m.entries[r[2]].value[1].len < value.len)
        THEN m.entries[r[2]].value[1].len - value.len
        ELSE 0

\* data_size after MemTable::delete
DeleteSize(m, key) ==
    LET r == GetIndex(m, key)
    IN  IF r[1]
        THEN LET cur == m.entries[r[2]].value
             IN  IF cur # None THEN USub(m.data_size, cur[1].len) ELSE m.data_size
        ELSE UAdd(m.data_size, Len(key) + EntryOverhead)

\* a MemTable::delete that leaves the timestamp of an entry it finds
MemDeleteKeepsStamp(m, timestamp, key) ==
    LET r == GetIndex(m, key)
    IN  [entries |->
            IF r[1]
            THEN [m.entries EXCEPT ![r[2]].value = None]
            ELSE InsertAt(m.entries, r[2], MemTableEntry(key, None, timestamp)),
         data_size |-> DeleteSize(m, key)]

\* MemTable::delete
MemDelete(m, timestamp, key) ==
    LET r == GetIndex(m, key)
    IN  [entries |->
            IF r[1]
            THEN [m.entries EXCEPT ![r[2]] = MemTableEntry(key, None, timestamp)]
            ELSE InsertAt(m.entries, r[2], MemTableEntry(key, None, timestamp)),
         data_size |-> DeleteSize(m, key)]

\* the amount MemTable::delete subtracts from data_size
DeleteSubtracts(m, key) ==
    LET r == GetIndex(m, key)
    IN  IF r[1] /\ m.entries[r[2]].value # None
        THEN m.entries[r[2]].value[1].len
        ELSE 0

\* MemTable::get: Option<&MemTableEntry>
MemGet(m, key) ==
    LET r == GetIndex(m, key)
    IN  IF r[1] THEN Some(m.entries[r[2]]) ELSE None

-----------------------------------------------------------------------------
(* utils.rs: the record codec, the directory scan, the clock *)

\* the number of bytes one write_all call (an atom) carries
AtomSize(a) ==
    IF "ts" \in DOMAIN a THEN 16
    ELSE IF "tomb" \in DOMAIN a THEN 1
    ELSE IF "klen" \in DOMAIN a THEN 8
    ELSE IF "vlen" \in DOMAIN a THEN 8
    ELSE IF "key" \in DOMAIN a THEN Len(a.key)
    ELSE a.val.len

RECURSIVE AtomsSize(_)
AtomsSize(atoms) ==
    IF atoms = <<>> THEN 0 ELSE AtomSize(Head(atoms)) + AtomsSize(Tail(atoms))

\* a CommonBinaryFormatRef::write that takes an empty value for no value
CbfWriteEmptyAsNone(timestamp, key, value) ==
    LET some == value # None /\ value[1].len > 0
    IN  <<[ts |-> timestamp], [tomb |-> IF some THEN 0 ELSE 1], [klen |-> Len(key)]>>
        \o (IF some THEN <<[vlen |-> value[1].len]>> ELSE <<>>)
        \o <<[key |-> key]>>
        \o (IF some THEN <<[val |-> value[1]]>> ELSE <<>>)

\* CommonBinaryFormatRef::write: the write_all calls, in order
CbfWrite(timestamp, key, value) ==
    <<[ts |-> timestamp], [tomb |-> IF value # None THEN 0 ELSE 1], [klen |-> Len(key)]>>
    \o (IF value # None THEN <<[vlen |-> value[1].len]>> ELSE <<>>)
    \o <<[key |-> key]>>
    \o (IF value # None THEN <<[val |-> value[1]]>> ELSE <<>>)

\* read_exact at 0-based atom offset `at` of stream f for a field of kind `kind`:
\* Some(atom), or None when the stream ends first
ReadExact(f, at, kind) ==
    IF at + 1 <= Len(f) /\ kind \in DOMAIN f[at + 1] THEN Some(f[at + 1]) ELSE None

\* WriteAheadLogIterator::next from atom offset `at` of file f:
\* Some([timestamp, key, value, next]), or None when any read_exact fails
\* (every `.ok()?` of next gives the same None)
DecodeAt(f, at) ==
    LET ts == ReadExact(f, at, "ts")
        tomb == ReadExact(f, at + 1, "tomb")
        klen == ReadExact(f, at + 2, "klen")
    IN  IF ts = None \/ tomb = None \/ klen = None THEN None
        ELSE LET is_delete == tomb[1].tomb # 0
                 vlen == IF is_delete THEN None ELSE ReadExact(f, at + 3, "vlen")
                 kat == IF is_delete THEN at + 3 ELSE at + 4
                 key == ReadExact(f, kat, "key")
                 val == IF is_delete THEN None ELSE ReadExact(f, kat + 1, "val")
             IN  IF (~is_delete /\ vlen = None) \/ key = None
                    \/ Len(key[1].key) # klen[1].klen
                    \/ (~is_delete /\ val = None)
                 THEN None
                 ELSE IF ~is_delete /\ val[1].val.len # vlen[1].vlen THEN None
                 ELSE Some([timestamp |-> ts[1].ts,
                            key |-> key[1].key,
                            value |-> IF is_delete THEN None ELSE Some(val[1].val),
                            next |-> IF is_delete THEN kat + 1 ELSE kat + 2])

\* usize::to_le_bytes (w = 8) and u128::to_le_bytes (w = 16)
RECURSIVE LeBytes(_, _)
LeBytes(n, w) == IF w = 0 THEN <<>> ELSE <<n % 256>> \o LeBytes(n \div 256, w - 1)

\* usize::from_le_bytes and u128::from_le_bytes
RECURSIVE FromLeBytes(_)
FromLeBytes(b) == IF b = <<>> THEN 0 ELSE b[1] + 256 * FromLeBytes(Tail(b))

\* the bytes of the vector vec![byte; len]
ValueBytes(v) == IF v.len = 0 THEN <<>> ELSE [i \in 1 .. v.len |-> v.byte]

\* the bytes one write_all call (an atom) hands to the writer
AtomBytes(a) ==
    IF "ts" \in DOMAIN a THEN LeBytes(a.ts, 16)
    ELSE IF "tomb" \in DOMAIN a THEN <<a.tomb>>
    ELSE IF "klen" \in DOMAIN a THEN LeBytes(a.klen, 8)
    ELSE IF "vlen" \in DOMAIN a THEN LeBytes(a.vlen, 8)
    ELSE IF "key" \in DOMAIN a THEN a.key
    ELSE ValueBytes(a.val)

\* the bytes a sequence of write_all calls leaves in the stream
RECURSIVE Bytes(_)
Bytes(atoms) ==
    IF atoms = <<>> THEN <<>> ELSE AtomBytes(Head(atoms)) \o Bytes(Tail(atoms))

\* Read::read_exact of n bytes at byte offset pos of stream b: Some(the bytes),
\* or None for Err(UnexpectedEof) when fewer than n bytes are left
ReadExactBytes(b, pos, n) ==
    IF pos + n <= Len(b) THEN Some(SubSeq(b, pos + 1, pos + n)) ELSE None

\* the io::Error every failed read_exact returns through `?`
UnexpectedEof == [ok |-> FALSE, error |-> "UnexpectedEof"]

\* CommonBinaryFormat::read with the reader at byte offset pos of stream b:
\* Ok(record), with `next` the reader's offset afterwards, or the Err
CbfRead(b, pos) ==
    LET timestamp == ReadExactBytes(b, pos, 16)
        tombstone == ReadExactBytes(b, pos + 16, 1)
        size_buffer == ReadExactBytes(b, pos + 17, 8)
    IN  IF timestamp = None \/ tombstone = None \/ size_buffer = None
        THEN UnexpectedEof
        ELSE LET is_delete == tombstone[1][1] # 0
                 key_size == FromLeBytes(size_buffer[1])
                 size_buffer2 == IF is_delete THEN None ELSE ReadExactBytes(b, pos + 25, 8)
             IN  IF ~is_delete /\ size_buffer2 = None
                 THEN UnexpectedEof
                 ELSE LET value_size == IF is_delete THEN 0 ELSE FromLeBytes(size_buffer2[1])
                          kpos == IF is_delete THEN pos + 25 ELSE pos + 33
                          key == ReadExactBytes(b, kpos, key_size)
                          value_data == IF is_delete THEN None
                                        ELSE ReadExactBytes(b, kpos + key_size, value_size)
                      IN  IF key = None \/ (~is_delete /\ value_data = None)
                          THEN UnexpectedEof
                          ELSE [ok |-> TRUE,
                                timestamp |-> FromLeBytes(timestamp[1]),
                                key |-> key[1],
                                value |-> IF is_delete THEN None ELSE Some(value_data[1]),
                                next |-> kpos + key_size + value_size]

\* u128::to_string: the decimal digits, as ASCII bytes
RECURSIVE DecimalBytes(_)
DecimalBytes(n) ==
    IF n < 10 THEN <<48 + n>> ELSE DecimalBytes(n \div 10) \o <<48 + (n % 10)>>

\* ASCII of the two extensions
ExtBytes(ext) == IF ext = "wal" THEN <<119, 97, 108>> ELSE <<115, 115, 116>>

\* the file name "<timestamp>.<ext>" as bytes
FileNameBytes(name) == DecimalBytes(name.ts) \o <<46>> \o ExtBytes(name.ext)

\* Ord for PathBuf, for two files of the working directory
PathLess(a, b) == KeyLess(FileNameBytes(a), FileNameBytes(b))

\* a scan_dir that does not filter by extension
ScanDirAnyExt(d, ext) == DOMAIN d

\* scan_dir(path, exts): the paths of the directory with the extension
ScanDir(d, ext) == {n \in DOMAIN d : n.ext = ext}

\* Itertools::sorted
RECURSIVE Sorted(_)
Sorted(S) ==
    IF S = {} THEN <<>>
    ELSE LET m == CHOOSE x \in S : \A y \in S \ {x} : PathLess(x, y)
         IN  <<m>> \o Sorted(S \ {m})

\* timestamp_now, and SystemTime::now in WriteAheadLog::new: the wall clock in
\* microseconds read at clock value c; it has advanced by one tick or not at all
TimestampNow(c) == {c, c + 1}

-----------------------------------------------------------------------------
(* wal.rs *)

\* std's BufWriter::new: DEFAULT_BUF_SIZE
BufCap == 8192

WalPath(t) == [ts |-> t, ext |-> "wal"]

SstPath(t) == [ts |-> t, ext |-> "sst"]

\* fs::remove_file
RemoveFile(d, path) == [n \in DOMAIN d \ {path} |-> d[n]]

\* File::options().append(true).create(true).open(path): an existing file is
\* kept as it is
OpenCreate(d, path) == IF path \in DOMAIN d THEN d ELSE (path :> <<>>) @@ d

\* write(2) of atoms through the descriptor of writer w: lands in the file
\* while the file is still the directory's entry
FileWrite(d, w, atoms) ==
    IF w.linked /\ w.path \in DOMAIN d
    THEN [d EXCEPT ![w.path] = @ \o atoms]
    ELSE d

\* BufWriter::flush_buf on the pair s = [w: writer, d: directory]
FlushBuf(s) == [w |-> [s.w EXCEPT !.buf = <<>>], d |-> FileWrite(s.d, s.w, s.w.buf)]

\* BufWriter::write_all of one atom
WriteAll(s, a) ==
    LET n == AtomSize(a)
        spare == BufCap - AtomsSize(s.w.buf)
    IN  IF n < spare
        THEN [s EXCEPT !.w.buf = Append(@, a)]
        ELSE LET s1 == IF n > spare THEN FlushBuf(s) ELSE s
             IN  IF n >= BufCap
                 THEN [s1 EXCEPT !.d = FileWrite(s1.d, s1.w, <<a>>)]
                 ELSE [s1 EXCEPT !.w.buf = Append(@, a)]

RECURSIVE WriteAtoms(_, _)
WriteAtoms(s, atoms) ==
    IF atoms = <<>> THEN s ELSE WriteAtoms(WriteAll(s, Head(atoms)), Tail(atoms))

\* BufWriter::flush_buf returns Err: the write of the file failed after some of
\* the buffer went out; the rest stays in the buffer
FlushBufErr(s) ==
    {[w |-> [s.w EXCEPT !.buf = SubSeq(s.w.buf, k + 1, Len(s.w.buf))],
      d |-> FileWrite(s.d, s.w, SubSeq(s.w.buf, 1, k))] : k \in 0 .. Len(s.w.buf) - 1}

\* BufWriter::write_all of one atom returns Err: only a call that writes the
\* file can (one that flushes a buffer that is not empty, or bypasses it)
WriteAllErr(s, a) ==
    LET n == AtomSize(a)
        spare == BufCap - AtomsSize(s.w.buf)
    IN  IF n < spare THEN {}
        ELSE (IF n > spare THEN FlushBufErr(s) ELSE {})
             \cup (IF n >= BufCap THEN {IF n > spare THEN FlushBuf(s) ELSE s} ELSE {})

\* a sequence of write_all calls linked by `?` returns Err: the first failing
\* call ends it
RECURSIVE WriteAtomsErr(_, _)
WriteAtomsErr(s, atoms) ==
    IF atoms = <<>> THEN {}
    ELSE WriteAllErr(s, Head(atoms))
         \cup WriteAtomsErr(WriteAll(s, Head(atoms)), Tail(atoms))

\* WriteAheadLog::new at clock reading t: the writer and the directory
WalNew(d, t) ==
    [w |-> [path |-> WalPath(t), buf |-> <<>>, linked |-> TRUE],
     d |-> OpenCreate(d, WalPath(t))]

\* WriteAheadLog::put
WalPut(s, key, value, timestamp) ==
    WriteAtoms(s, <<[ts |-> timestamp], [tomb |-> 0], [klen |-> Len(key)],
                    [vlen |-> value.len], [key |-> key], [val |-> value]>>)

\* a WriteAheadLog::delete that writes the flag of a put
WalDeleteLive(s, key, timestamp) ==
    WriteAtoms(s, <<[ts |-> timestamp], [tomb |-> 0], [klen |-> Len(key)],
                    [key |-> key]>>)

\* WriteAheadLog::delete
WalDelete(s, key, timestamp) ==
    WriteAtoms(s, <<[ts |-> timestamp], [tomb |-> 1], [klen |-> Len(key)],
                    [key |-> key]>>)

\* WriteAheadLog::put returns Err
WalPutErr(s, key, value, timestamp) ==
    WriteAtomsErr(s, <<[ts |-> timestamp], [tomb |-> 0], [klen |-> Len(key)],
                       [vlen |-> value.len], [key |-> key], [val |-> value]>>)

\* WriteAheadLog::delete returns Err
WalDeleteErr(s, key, timestamp) ==
    WriteAtomsErr(s, <<[ts |-> timestamp], [tomb |-> 1], [klen |-> Len(key)],
                       [key |-> key]>>)

\* WriteAheadLog::flush
WalFlush(s) == FlushBuf(s)

\* WriteAheadLog::flush returns Err
WalFlushErr(s) == FlushBufErr(s)

\* WriteAheadLogIterator::next at atom offset `at` of the file as it is on disk
\* when next is called
WalNext(f, at) == DecodeAt(f, at)

\* the entries WriteAheadLogIterator yields from atom offset `at` on, for a file
\* that no one writes meanwhile
RECURSIVE WalEntries(_, _)
WalEntries(f, at) ==
    LET e == WalNext(f, at)
    IN  IF e = None THEN <<>>
        ELSE <<[timestamp |-> e[1].timestamp, key |-> e[1].key, value |-> e[1].value]>>
             \o WalEntries(f, e[1].next)

-----------------------------------------------------------------------------
(* sstable.rs *)

\* SstMetadata::read from the start of stream b: Ok(SstMetadata) or the Err of
\* the read_exact that failed
SstMetadataRead(b) ==
    LET level == ReadExactBytes(b, 0, 8)
        lookup_table_offset == ReadExactBytes(b, 8, 8)
        values_table_offset == ReadExactBytes(b, 16, 8)
        low_size == ReadExactBytes(b, 24, 8)
    IN  IF level = None \/ lookup_table_offset = None \/ values_table_offset = None
           \/ low_size = None
        THEN UnexpectedEof
        ELSE LET low_key_size == FromLeBytes(low_size[1])
                 low_key == ReadExactBytes(b, 32, low_key_size)
                 high_size == ReadExactBytes(b, 32 + low_key_size, 8)
             IN  IF low_key = None \/ high_size = None
                 THEN UnexpectedEof
                 ELSE LET high_key_size == FromLeBytes(high_size[1])
                          high_key == ReadExactBytes(b, 40 + low_key_size, high_key_size)
                      IN  IF high_key = None
                          THEN UnexpectedEof
                          ELSE [ok |-> TRUE,
                                level |-> FromLeBytes(level[1]),
                                lookup_table_offset |-> FromLeBytes(lookup_table_offset[1]),
                                values_table_offset |-> FromLeBytes(values_table_offset[1]),
                                low_key |-> low_key[1],
                                high_key |-> high_key[1]]

-----------------------------------------------------------------------------
(* The process: Database::init (WriteAheadLog::load_dir), Database::put,     *)
(* Database::delete, Database::swap_memtable, and its termination.           *)

\* no writer
NoWal == [path |-> WalPath(0), buf |-> <<>>, linked |-> FALSE]

\* the writer after fs::remove_file(path)
Unlink(w, path) == IF w.path = path THEN [w EXCEPT !.linked = FALSE] ELSE w

\* The directory a panic leaves: the process aborts, or it unwinds and drops
\* the writer, whose BufWriter then flushes
PanicDirs(w, d) == {d, FileWrite(d, w, w.buf)}

\* The directory the drop of writer w leaves when a call returns Err: BufWriter's
\* Drop writes the buffer out and ignores a failure
DropDirs(w, d) == {d, FileWrite(d, w, w.buf)}

\* the number of records in a stream of atoms
CountRecords(atoms) == Cardinality({i \in DOMAIN atoms : "ts" \in DOMAIN atoms[i]})

\* the records load_dir has appended to its new WAL
Replayed(w, d) ==
    CountRecords(w.buf) + (IF w.path \in DOMAIN d THEN CountRecords(d[w.path]) ELSE 0)

\* the mutations the .wal files of the first start hold
InitPool ==
    {[key |-> KeyA, value |-> Some(SmallValue)],
     [key |-> KeyA, value |-> Some(BigValue)],
     [key |-> KeyA, value |-> None],
     [key |-> KeyB, value |-> Some(SmallValue)]}

InitSeqs == UNION {[1 .. n -> InitPool] : n \in 0 .. MaxInitRecs}

\* the atoms put(key, value, timestamp) / delete(key, timestamp) and flush
\* leave in a .wal file
WalRecordAtoms(key, value, timestamp) ==
    IF value # None
    THEN <<[ts |-> timestamp], [tomb |-> 0], [klen |-> Len(key)],
           [vlen |-> value[1].len], [key |-> key], [val |-> value[1]]>>
    ELSE <<[ts |-> timestamp], [tomb |-> 1], [klen |-> Len(key)], [key |-> key]>>

\* the .wal file that holds mutations q[from .. to], stamped by position
RECURSIVE WalFileOf(_, _, _)
WalFileOf(q, from, to) ==
    IF from > to THEN <<>>
    ELSE WalRecordAtoms(q[from].key, q[from].value, from) \o WalFileOf(q, from + 1, to)

OldWals == <<WalPath(10), WalPath(11)>>

\* The directories of the first start: up to two .wal files left by earlier
\* runs, holding up to MaxInitRecs records in all
InitDirs ==
    {[n \in P |-> IF n = OldWals[1] THEN WalFileOf(q, 1, c)
                  ELSE WalFileOf(q, c + 1, Len(q))] :
        <<P, q, c>> \in
            {x \in (SUBSET {OldWals[1], OldWals[2]}) \X InitSeqs \X (0 .. MaxInitRecs) :
                /\ x[3] <= Len(x[2])
                /\ OldWals[1] \notin x[1] => x[3] = 0
                /\ OldWals[2] \notin x[1] => x[3] = Len(x[2])}}

\* the engine's variables before the first start, but the directory
InitIdle ==
    /\ now = FirstClock
    /\ st = "down"
    /\ wal = NoWal
    /\ rw_memtable = MemTableNew
    /\ ro_memtable = MemTableNew
    /\ new_wal = NoWal
    /\ memtable = MemTableNew
    /\ paths = <<>>
    /\ iter_at = 0
    /\ remove_files = <<>>
    /\ log = <<>>
    /\ inst = 0
    /\ starts = 0
    /\ startDir = <<>>
    /\ last = "none"

\* no codec or WAL round trip runs
InitCodecIdle ==
    /\ phase = "idle"
    /\ rec = None
    /\ stream = <<>>
    /\ short = <<>>
    /\ out = <<>>
    /\ short_out = <<>>

InitDb == dir \in InitDirs /\ InitIdle

\* the process is gone: its memory with it
Down ==
    /\ st' = "down"
    /\ wal' = NoWal
    /\ rw_memtable' = MemTableNew
    /\ ro_memtable' = MemTableNew
    /\ new_wal' = NoWal
    /\ memtable' = MemTableNew
    /\ paths' = <<>>
    /\ iter_at' = 0
    /\ remove_files' = <<>>
    /\ startDir' = <<>>

\* Database::init, WriteAheadLog::load_dir up to the loop: the memtable, the
\* new WAL, the scan.  The wall clock need not have advanced since the files of
\* the directory were made.
LoadDirBegin ==
    /\ st = "down"
    /\ starts < MaxStarts
    /\ starts' = starts + 1
    /\ \E t \in TimestampNow(now) :
        /\ t <= MaxClock
        /\ now' = t
        /\ LET s == WalNew(dir, t)
           IN  /\ new_wal' = s.w
               /\ dir' = s.d
               /\ paths' = Sorted(ScanDir(s.d, "wal"))
    /\ memtable' = MemTableNew
    /\ iter_at' = 0
    /\ remove_files' = <<>>
    /\ startDir' = [n \in ScanDir(dir, "wal") |-> dir[n]]
    /\ st' = "replay"
    /\ UNCHANGED <<wal, rw_memtable, ro_memtable, log, inst, last>>

\* load_dir: one turn of the inner loop, or the end of one file
ReplayStep ==
    /\ st = "replay"
    /\ paths # <<>>
    /\ LET path == Head(paths)
           elem == WalNext(dir[path], iter_at)
           s == [w |-> new_wal, d |-> dir]
       IN  IF elem = None
           THEN /\ remove_files' = Append(remove_files, path)
                /\ paths' = Tail(paths)
                /\ iter_at' = 0
                /\ UNCHANGED <<dir, st, wal, rw_memtable, ro_memtable, new_wal,
                               memtable, last, startDir>>
           ELSE /\ Replayed(new_wal, dir) < MaxReplay
                /\ LET e == elem[1]
                       s1 == IF e.value # None
                             THEN WalPut(s, e.key, e.value[1], e.timestamp)
                             ELSE WalDelete(s, e.key, e.timestamp)
                       under == IF e.value # None
                                THEN Underflows(memtable.data_size,
                                                PutSubtracts(memtable, e.key, e.value[1]))
                                ELSE Underflows(memtable.data_size,
                                                DeleteSubtracts(memtable, e.key))
                       m1 == IF e.value # None
                             THEN MemPut(memtable, e.timestamp, e.key, e.value[1])
                             ELSE MemDelete(memtable, e.timestamp, e.key)
                   IN  \/ /\ new_wal' = s1.w
                          /\ dir' = s1.d
                          /\ memtable' = m1
                          /\ iter_at' = e.next
                          /\ UNCHANGED <<st, wal, rw_memtable, ro_memtable, paths,
                                         remove_files, last, startDir>>
                       \/ /\ under
                          /\ dir' \in PanicDirs(s1.w, s1.d)
                          /\ Down
                          /\ last' = "panic"
    /\ UNCHANGED <<now, log, inst, starts>>

\* load_dir: new_wal.flush()
ReplayFlush ==
    /\ st = "replay"
    /\ paths = <<>>
    /\ LET s == WalFlush([w |-> new_wal, d |-> dir])
       IN  /\ new_wal' = s.w
           /\ dir' = s.d
    /\ st' = "remove"
    /\ UNCHANGED <<now, wal, rw_memtable, ro_memtable, memtable, paths, iter_at,
                   remove_files, log, inst, starts, startDir, last>>

\* load_dir: fs::remove_file of one replayed file
RemoveStep ==
    /\ st = "remove"
    /\ remove_files # <<>>
    /\ Head(remove_files) \in DOMAIN dir
    /\ dir' = RemoveFile(dir, Head(remove_files))
    /\ new_wal' = Unlink(new_wal, Head(remove_files))
    /\ remove_files' = Tail(remove_files)
    /\ UNCHANGED <<now, st, wal, rw_memtable, ro_memtable, memtable, paths, iter_at,
                   log, inst, starts, startDir, last>>

\* load_dir returns Ok((new_wal, memtable)) and Database::init the engine
InitReturn ==
    /\ st = "remove"
    /\ remove_files = <<>>
    /\ wal' = new_wal
    /\ rw_memtable' = memtable
    /\ ro_memtable' = MemTableNew
    /\ new_wal' = NoWal
    /\ memtable' = MemTableNew
    /\ st' = "up"
    /\ inst' = Len(log)
    /\ UNCHANGED starts
    /\ last' = "init"
    /\ UNCHANGED <<now, dir, paths, iter_at, remove_files, log, startDir>>

\* the .sst file swap_memtable writes: every entry through
\* CommonBinaryFormatRef::write, unbuffered
RECURSIVE SstAtoms(_)
SstAtoms(entries) ==
    IF entries = <<>> THEN <<>>
    ELSE CbfWrite(Head(entries).timestamp, Head(entries).key, Head(entries).value)
         \o SstAtoms(Tail(entries))

\* the ghost record of one engine call: ok when it has returned Ok, frozen the
\* entries of rw_memtable when it called swap_memtable (<<>> when it did not)
Call(timestamp, key, value, ok, frozen) ==
    [timestamp |-> timestamp, key |-> key, value |-> value, ok |-> ok,
     frozen |-> frozen]

\* a put or delete that applies the mutation whatever the WAL append returned
MemtableAnyway(appended, m, m1) == m1

\* rw_memtable after self.wal.put(..)? / self.wal.delete(..)? and the memtable
\* call behind it: m1 when the append returned Ok, m as it was when `?` returned
MemtableAfter(appended, m, m1) == IF appended THEN m1 ELSE m

\* Database::put and Database::delete up to the call of swap_memtable; value is
\* Some(v) for put(key, v) and None for delete(key).  A subtraction in the
\* memtable that leaves usize wraps or panics.
Mutate(key, value) ==
    /\ st = "up"
    /\ Len(log) < MaxOps
    /\ \E timestamp \in TimestampNow(now) :
        /\ timestamp <= MaxClock
        /\ now' = timestamp
        /\ LET s == [w |-> wal, d |-> dir]
               s1 == IF value # None
                     THEN WalPut(s, key, value[1], timestamp)
                     ELSE WalDelete(s, key, timestamp)
               under == IF value # None
                        THEN Underflows(rw_memtable.data_size,
                                        PutSubtracts(rw_memtable, key, value[1]))
                        ELSE Underflows(rw_memtable.data_size,
                                        DeleteSubtracts(rw_memtable, key))
               m1 == IF value # None
                     THEN MemPut(rw_memtable, timestamp, key, value[1])
                     ELSE MemDelete(rw_memtable, timestamp, key)
               swap == UGreater(m1.data_size, Threshold)
           IN  \/ /\ wal' = s1.w
                  /\ dir' = s1.d
                  /\ rw_memtable' = MemtableAfter(TRUE, rw_memtable, m1)
                  /\ log' = Append(log, Call(timestamp, key, value, ~swap,
                                             IF swap THEN m1.entries ELSE <<>>))
                  /\ st' = IF swap THEN "swapping" ELSE "up"
                  /\ last' = IF swap THEN "running"
                             ELSE IF value # None THEN "put" ELSE "delete"
                  /\ startDir' = <<>>
                  /\ UNCHANGED <<ro_memtable, new_wal, memtable, paths, iter_at,
                                 remove_files>>
               \/ /\ under
                  /\ dir' \in PanicDirs(s1.w, s1.d)
                  /\ log' = Append(log, Call(timestamp, key, value, FALSE, <<>>))
                  /\ Down
                  /\ last' = "panic"
               \/ \* the WAL append returns Err, and `?` returns it
                  \E s2 \in (IF value # None
                              THEN WalPutErr(s, key, value[1], timestamp)
                              ELSE WalDeleteErr(s, key, timestamp)) :
                      /\ wal' = s2.w
                      /\ dir' = s2.d
                      /\ rw_memtable' = MemtableAfter(FALSE, rw_memtable, m1)
                      /\ log' = Append(log, Call(timestamp, key, value, FALSE, <<>>))
                      /\ last' = "error"
                      /\ startDir' = <<>>
                      /\ UNCHANGED <<st, ro_memtable, new_wal, memtable, paths,
                                     iter_at, remove_files>>
    /\ UNCHANGED <<inst, starts>>

\* Database::put
Put == \E key \in {KeyA, KeyB}, value \in Values : Mutate(key, Some(value))

\* Database::delete
Delete == \E key \in {KeyA, KeyB} : Mutate(key, None)

\* Database::swap_memtable, and the return of the put or delete that called it
SwapMemtable ==
    /\ st = "swapping"
    /\ IF wal.path \notin DOMAIN dir
       THEN \* assert!(old_wal_path.exists()) fails
            /\ dir' \in PanicDirs(wal, dir)
            /\ Down
            /\ last' = "panic"
            /\ UNCHANGED <<now, log>>
       ELSE \E t1 \in TimestampNow(now) : \E t2 \in TimestampNow(t1) :
            /\ t2 <= MaxClock
            /\ now' = t2
            /\ LET old_wal_path == wal.path
                   created == WalNew(dir, t1)
                   \* self.wal = ...: the old writer is dropped, and flushes
                   d1 == FileWrite(created.d, wal, wal.buf)
                   save_path == SstPath(t2)
               IN  IF save_path \in DOMAIN d1
                   THEN \* assert!(!save_path.exists()) fails
                        /\ dir' \in PanicDirs(created.w, d1)
                        /\ Down
                        /\ last' = "panic"
                        /\ UNCHANGED log
                   ELSE /\ dir' = RemoveFile(
                                     (save_path :> SstAtoms(rw_memtable.entries)) @@ d1,
                                     old_wal_path)
                        /\ wal' = Unlink(created.w, old_wal_path)
                        /\ ro_memtable' = rw_memtable
                        /\ rw_memtable' = MemTableNew
                        /\ st' = "up"
                        /\ log' = [log EXCEPT ![Len(log)].ok = TRUE]
                        /\ last' = IF log[Len(log)].value # None THEN "put" ELSE "delete"
                        /\ UNCHANGED <<new_wal, memtable, paths, iter_at, remove_files,
                                       startDir>>
    /\ UNCHANGED <<inst, starts>>

\* the process is killed, or the machine stops: what is on disk stays
Crash ==
    /\ st # "down"
    /\ Down
    /\ last' = "crash"
    /\ UNCHANGED <<now, dir, log, inst, starts>>

-----------------------------------------------------------------------------
(* The memtable driven directly, as memtable.rs's test drives it. *)

InitMem ==
    /\ mt = MemTableNew
    /\ latest = [k \in Keys |-> None]
    /\ nops = 0
    /\ mstat = "ok"

\* memtable.put(timestamp, key, value); a subtraction larger than data_size
\* wraps (release build) or aborts (overflow checks on)
PutStep(timestamp, key, value) ==
    /\ mstat # "panic"
    /\ nops < MaxMemOps
    /\ nops' = nops + 1
    /\ IF Underflows(mt.data_size, PutSubtracts(mt, key, value))
       THEN \/ /\ mstat' = "wrapped"
               /\ mt' = MemPut(mt, timestamp, key, value)
               /\ latest' = [latest EXCEPT ![key] =
                                Some([value |-> Some(value), timestamp |-> timestamp])]
            \/ /\ mstat' = "panic"
               /\ UNCHANGED <<mt, latest>>
       ELSE /\ mt' = MemPut(mt, timestamp, key, value)
            /\ latest' = [latest EXCEPT ![key] =
                             Some([value |-> Some(value), timestamp |-> timestamp])]
            /\ UNCHANGED mstat

\* memtable.delete(timestamp, key)
DeleteStep(timestamp, key) ==
    /\ mstat # "panic"
    /\ nops < MaxMemOps
    /\ nops' = nops + 1
    /\ IF Underflows(mt.data_size, DeleteSubtracts(mt, key))
       THEN \/ /\ mstat' = "wrapped"
               /\ mt' = MemDelete(mt, timestamp, key)
               /\ latest' = [latest EXCEPT ![key] =
                                Some([value |-> None, timestamp |-> timestamp])]
            \/ /\ mstat' = "panic"
               /\ UNCHANGED <<mt, latest>>
       ELSE /\ mt' = MemDelete(mt, timestamp, key)
            /\ latest' = [latest EXCEPT ![key] =
                             Some([value |-> None, timestamp |-> timestamp])]
            /\ UNCHANGED mstat

MemPutAct == \E t \in MemStamps, k \in Keys, v \in Values : PutStep(t, k, v)

MemDeleteAct == \E t \in MemStamps, k \in Keys : DeleteStep(t, k)

NextMem ==
    \/ MemPutAct /\ UNCHANGED <<dbvars, codecvars>>
    \/ MemDeleteAct /\ UNCHANGED <<dbvars, codecvars>>

\* the memtable alone: the engine is never started, on an empty directory
InitMemAlone == InitMem /\ dir = <<>> /\ InitIdle /\ InitCodecIdle

SpecMem == InitMemAlone /\ [][NextMem]_vars

-----------------------------------------------------------------------------
(* The codec driven directly: one record written, the stream read back to   *)
(* its end, and a cut copy of the stream read.                              *)

CodecStamps == {1, 258}

CodecKeys == {<<>>, KeyA, KeyB}

CodecValues == {None, Some([byte |-> 1, len |-> 0]), Some(SmallValue)}

InitCodec ==
    /\ InitMem
    /\ dir = <<>>
    /\ InitIdle
    /\ phase = "record"
    /\ rec \in [timestamp : CodecStamps, key : CodecKeys, value : CodecValues]
    /\ stream = <<>>
    /\ short = <<>>
    /\ out = <<>>
    /\ short_out = <<>>

\* CommonBinaryFormatRef::new(timestamp, key, value).write(&mut stream)
CodecWrite ==
    /\ phase = "record"
    /\ stream' = Bytes(CbfWrite(rec.timestamp, rec.key, rec.value))
    /\ phase' = "written"
    /\ UNCHANGED <<rec, short, out, short_out>>

\* the stream loses its tail: it ends in the middle of the record
CodecCut ==
    /\ phase = "written"
    /\ short = <<>>
    /\ \E n \in 1 .. Len(stream) - 1 : short' = SubSeq(stream, 1, n)
    /\ UNCHANGED <<phase, rec, stream, out, short_out>>

\* the offset of a reader after the reads with results o
ReaderAt(o) == IF o = <<>> THEN 0 ELSE o[Len(o)].next

\* no read has failed yet
CanRead(o) == IF o = <<>> THEN TRUE ELSE o[Len(o)].ok

\* CommonBinaryFormat::read(&mut reader) on the whole stream, until it fails
CodecRead ==
    /\ phase = "written"
    /\ CanRead(out)
    /\ out' = Append(out, CbfRead(stream, ReaderAt(out)))
    /\ UNCHANGED <<phase, rec, stream, short, short_out>>

\* CommonBinaryFormat::read(&mut reader) on the cut stream, until it fails
CodecReadShort ==
    /\ short # <<>>
    /\ CanRead(short_out)
    /\ short_out' = Append(short_out, CbfRead(short, ReaderAt(short_out)))
    /\ UNCHANGED <<phase, rec, stream, short, out>>

NextCodec ==
    \/ CodecWrite /\ UNCHANGED <<memvars, dbvars>>
    \/ CodecCut /\ UNCHANGED <<memvars, dbvars>>
    \/ CodecRead /\ UNCHANGED <<memvars, dbvars>>
    \/ CodecReadShort /\ UNCHANGED <<memvars, dbvars>>

SpecCodec == InitCodec /\ [][NextCodec]_vars

-----------------------------------------------------------------------------
(* The WAL driven directly, as wal.rs's test load_cycle drives it: a new     *)
(* WAL, puts and deletes, flush, then load and into_iter.                    *)

\* the engine's variables the round trip leaves alone
walrest == <<st, rw_memtable, ro_memtable, new_wal, memtable, paths, iter_at,
             remove_files, log, inst, starts, startDir, last>>

InitWal ==
    /\ InitMem
    /\ dir = <<>>
    /\ InitIdle
    /\ phase = "wal"
    /\ rec = <<>>
    /\ stream = <<>>
    /\ short = <<>>
    /\ out = <<>>
    /\ short_out = <<>>

\* WriteAheadLog::new(test_dir)
LoadCycleNew ==
    /\ phase = "wal"
    /\ \E t \in TimestampNow(now) :
        /\ now' = t
        /\ wal' = WalNew(dir, t).w
        /\ dir' = WalNew(dir, t).d
    /\ phase' = "open"
    /\ UNCHANGED <<rec, stream, short, out, short_out>>

\* wal.put(key, value, timestamp)
LoadCyclePut ==
    /\ phase = "open"
    /\ Len(rec) < MaxWalCalls
    /\ \E key \in {KeyA, KeyB}, value \in Values, timestamp \in MemStamps :
        LET s1 == WalPut([w |-> wal, d |-> dir], key, value, timestamp)
        IN  /\ wal' = s1.w
            /\ dir' = s1.d
            /\ rec' = Append(rec, [timestamp |-> timestamp, key |-> key,
                                   value |-> Some(value)])
    /\ UNCHANGED <<now, phase, stream, short, out, short_out>>

\* wal.delete(key, timestamp)
LoadCycleDelete ==
    /\ phase = "open"
    /\ Len(rec) < MaxWalCalls
    /\ \E key \in {KeyA, KeyB}, timestamp \in MemStamps :
        LET s1 == WalDelete([w |-> wal, d |-> dir], key, timestamp)
        IN  /\ wal' = s1.w
            /\ dir' = s1.d
            /\ rec' = Append(rec, [timestamp |-> timestamp, key |-> key, value |-> None])
    /\ UNCHANGED <<now, phase, stream, short, out, short_out>>

\* wal.flush(); drop(wal)
LoadCycleFlush ==
    /\ phase = "open"
    /\ wal' = WalFlush([w |-> wal, d |-> dir]).w
    /\ dir' = WalFlush([w |-> wal, d |-> dir]).d
    /\ phase' = "flushed"
    /\ UNCHANGED <<now, rec, stream, short, out, short_out>>

\* WriteAheadLog::load(path).into_iter().collect()
LoadCycleRead ==
    /\ phase = "flushed"
    /\ out' = WalEntries(dir[wal.path], 0)
    /\ phase' = "read"
    /\ UNCHANGED <<now, dir, wal, rec, stream, short, short_out>>

NextWal ==
    \/ LoadCycleNew /\ UNCHANGED <<memvars, walrest>>
    \/ LoadCyclePut /\ UNCHANGED <<memvars, walrest>>
    \/ LoadCycleDelete /\ UNCHANGED <<memvars, walrest>>
    \/ LoadCycleFlush /\ UNCHANGED <<memvars, walrest>>
    \/ LoadCycleRead /\ UNCHANGED <<memvars, walrest>>

SpecWal == InitWal /\ [][NextWal]_vars

-----------------------------------------------------------------------------
(* Database::init alone, on a disk whose writes can fail: load_dir with the   *)
(* Err returns of its appends and of its flush.                               *)

\* load_dir: new_wal.put / new_wal.delete returns Err; `?` returns it from
\* load_dir and from init, and new_wal is dropped
ReplayAppendErr ==
    /\ st = "replay"
    /\ paths # <<>>
    /\ LET elem == WalNext(dir[Head(paths)], iter_at)
           s == [w |-> new_wal, d |-> dir]
       IN  /\ elem # None
           /\ \E s2 \in (IF elem[1].value # None
                          THEN WalPutErr(s, elem[1].key, elem[1].value[1],
                                         elem[1].timestamp)
                          ELSE WalDeleteErr(s, elem[1].key, elem[1].timestamp)) :
                  dir' \in DropDirs(s2.w, s2.d)
    /\ Down
    /\ last' = "init_error"
    /\ UNCHANGED <<now, log, inst, starts>>

\* load_dir: new_wal.flush() returns Err; `?` returns it, and new_wal is dropped
ReplayFlushErr ==
    /\ st = "replay"
    /\ paths = <<>>
    /\ \E s2 \in WalFlushErr([w |-> new_wal, d |-> dir]) :
          dir' \in DropDirs(s2.w, s2.d)
    /\ Down
    /\ last' = "init_error"
    /\ UNCHANGED <<now, log, inst, starts>>

NextReplay ==
    \/ LoadDirBegin /\ UNCHANGED <<memvars, codecvars>>
    \/ ReplayStep /\ UNCHANGED <<memvars, codecvars>>
    \/ ReplayAppendErr /\ UNCHANGED <<memvars, codecvars>>
    \/ ReplayFlush /\ UNCHANGED <<memvars, codecvars>>
    \/ ReplayFlushErr /\ UNCHANGED <<memvars, codecvars>>
    \/ RemoveStep /\ UNCHANGED <<memvars, codecvars>>
    \/ InitReturn /\ UNCHANGED <<memvars, codecvars>>
    \/ Crash /\ UNCHANGED <<memvars, codecvars>>

InitReplay == InitMem /\ InitDb /\ InitCodecIdle

SpecReplay == InitReplay /\ [][NextReplay]_vars

-----------------------------------------------------------------------------
(* The engine: the memtable under test is left alone. *)

Init == InitMem /\ InitDb /\ InitCodecIdle

Next ==
    \/ LoadDirBegin /\ UNCHANGED <<memvars, codecvars>>
    \/ ReplayStep /\ UNCHANGED <<memvars, codecvars>>
    \/ ReplayFlush /\ UNCHANGED <<memvars, codecvars>>
    \/ RemoveStep /\ UNCHANGED <<memvars, codecvars>>
    \/ InitReturn /\ UNCHANGED <<memvars, codecvars>>
    \/ Put /\ UNCHANGED <<memvars, codecvars>>
    \/ Delete /\ UNCHANGED <<memvars, codecvars>>
    \/ SwapMemtable /\ UNCHANGED <<memvars, codecvars>>
    \/ Crash /\ UNCHANGED <<memvars, codecvars>>

Spec == Init /\ [][Next]_vars

-----------------------------------------------------------------------------
(* The engine on a working directory that holds a .sst file already. *)

\* a .sst file of the working directory: one entry, as swap_memtable writes it
OldSst == SstPath(9)

OldSstEntries == <<MemTableEntry(KeyA, Some(SmallValue), 1)>>

SstDirs == {(OldSst :> SstAtoms(OldSstEntries)) @@ d : d \in InitDirs}

InitSst == InitMem /\ dir \in SstDirs /\ InitIdle /\ InitCodecIdle

SpecSst == InitSst /\ [][Next]_vars

-----------------------------------------------------------------------------
(* Properties *)

\* every record the .wal and .sst files of directory d hold, complete on disk
DiskRecords(d) ==
    UNION {{WalEntries(d[n], 0)[i] : i \in DOMAIN WalEntries(d[n], 0)} : n \in DOMAIN d}

\* C1: crash safety.  The process may terminate in any state, so in every
\* state each engine put/delete that returned Ok has its record (timestamp,
\* key, value or tombstone) in a .wal file or a .sst file of the directory,
\* user-space buffers not counted.
C1_AckedIsOnDisk ==
    \A i \in DOMAIN log :
        log[i].ok =>
            [timestamp |-> log[i].timestamp, key |-> log[i].key, value |-> log[i].value]
                \in DiskRecords(dir)

\* the records of the .wal files of d, files in ascending file name order and
\* records in in-file order
RECURSIVE RecordsInOrder(_, _)
RecordsInOrder(d, ps) ==
    IF ps = <<>> THEN <<>>
    ELSE WalEntries(d[Head(ps)], 0) \o RecordsInOrder(d, Tail(ps))

\* Some(the last record of recs for key), or None
LastRecordFor(recs, key) ==
    LET I == {i \in DOMAIN recs : recs[i].key = key}
    IN  IF I = {} THEN None
        ELSE Some(recs[CHOOSE i \in I : \A j \in I : j <= i])

\* C2: when Database::init has returned, rw_memtable holds for each key the
\* last record for that key among the records of the .wal files present at
\* startup (files in ascending name order, records in file order), and holds
\* no key that has no record.
C2_ReplayResult ==
    last = "init" =>
        LET recs == RecordsInOrder(startDir, Sorted(DOMAIN startDir))
        IN  /\ Len(rw_memtable.entries)
                  = Cardinality({k \in Keys : LastRecordFor(recs, k) # None})
            /\ \A k \in Keys :
                    LET r == LastRecordFor(recs, k)
                    IN  MemGet(rw_memtable, k) =
                            IF r = None THEN None
                            ELSE Some(MemTableEntry(k, r[1].value, r[1].timestamp))

\* C3: when load_dir has returned Ok, exactly one .wal file exists in the
\* working directory, the file of the WAL it returned.
C3_OneWalAfterReplay ==
    last = "init" => ScanDir(dir, "wal") = {wal.path}

\* C5: while swap_memtable runs, the WAL that was current when it started is
\* not absent from the directory unless a .sst file holds every entry of its
\* memtable.
C5_OldWalKeptUntilSst ==
    st = "swapping" =>
        \/ wal.path \in DOMAIN dir
        \/ \E n \in ScanDir(dir, "sst") : dir[n] = SstAtoms(rw_memtable.entries)

\* the sum over entries of key.len() + value.len() (if a value) + the overhead
RECURSIVE EntriesSize(_)
EntriesSize(entries) ==
    IF entries = <<>> THEN 0
    ELSE Len(Head(entries).key)
         + (IF Head(entries).value # None THEN Head(entries).value[1].len ELSE 0)
         + EntryOverhead
         + EntriesSize(Tail(entries))

\* C6: after any sequence of MemTable::put and MemTable::delete on a fresh
\* memtable, data_size is the sum over the entries of key.len() + value.len()
\* (0 for a tombstone) + size_of::<MemTableEntry>().
C6_DataSizeIsSum == mt.data_size = EntriesSize(mt.entries)

\* C7: no MemTable::put or MemTable::delete subtracts from data_size more than
\* data_size holds.
C7_NoUnderflow == mstat = "ok"

\* C8: entries is strictly ascending by key, and holds exactly one entry per
\* key a put or delete was applied to: an operation on a key already present
\* adds no entry.
C8_SortedUnique ==
    /\ \A i \in 1 .. Len(mt.entries) - 1 :
            KeyLess(mt.entries[i].key, mt.entries[i + 1].key)
    /\ Len(mt.entries) = Cardinality({k \in Keys : latest[k] # None})

\* C8's case: three keys are present and an operation has hit a present key
C8_Witness == Len(mt.entries) = 3 /\ nops = 4 /\ mstat = "ok"

\* C9: get(k) is None iff no put or delete was applied to k; otherwise it is
\* the entry with the value (or tombstone) and the timestamp of the operation
\* applied to k last.
C9_LatestWins ==
    \A k \in Keys :
        MemGet(mt, k) =
            IF latest[k] = None THEN None
            ELSE Some(MemTableEntry(k, latest[k][1].value, latest[k][1].timestamp))

\* C9's case: three operations were applied to one key, the last a delete, and
\* the other keys were never touched
C9_Witness ==
    /\ nops = 3
    /\ mstat = "ok"
    /\ Len(mt.entries) = 1
    /\ latest[KeyA] = Some([value |-> None, timestamp |-> 1])
    /\ latest[KeyB] = None
    /\ latest[KeyC] = None

\* C10: within one engine instance the timestamps of successive put/delete
\* calls are strictly increasing.
C10_StrictStamps ==
    \A i, j \in (inst + 1) .. Len(log) :
        i < j => log[i].timestamp < log[j].timestamp

\* C12: a put or delete that has returned Ok leaves data_size at most the
\* threshold, and when no call is running the directory holds one .sst file
\* for every put or delete that called swap_memtable.
C12_SwapTrigger ==
    /\ last \in {"put", "delete"} => ~UGreater(rw_memtable.data_size, Threshold)
    /\ st # "swapping" =>
            Cardinality(ScanDir(dir, "sst"))
                = Cardinality({i \in DOMAIN log : log[i].frozen # <<>>})

\* C14: the .wal file WriteAheadLog::new creates has a name no file of the
\* working directory has yet.
C14_NewWalNameIsFree ==
    [][(st = "down" /\ st' = "replay") => new_wal'.path \notin DOMAIN dir]_vars

\* C15: when the last put or delete called swap_memtable and a fresh engine has
\* been opened on the directory, rw_memtable is empty and a .sst file reads, by
\* SstMetadata::read from its start, as level 0 with low_key and high_key the
\* smallest and the largest key of the flushed entries.
C15_SstReadableAfterReopen ==
    (last = "init" /\ log # <<>> /\ log[Len(log)].frozen # <<>>) =>
        LET frozen == log[Len(log)].frozen
        IN  /\ rw_memtable.entries = <<>>
            /\ \E n \in ScanDir(dir, "sst") :
                    LET meta == SstMetadataRead(Bytes(dir[n]))
                    IN  /\ meta.ok
                        /\ meta.level = 0
                        /\ meta.low_key = frozen[1].key
                        /\ meta.high_key = frozen[Len(frozen)].key

\* the records the engine instance that runs has appended to its WAL
Appended ==
    {[timestamp |-> log[i].timestamp, key |-> log[i].key, value |-> log[i].value] :
        i \in inst + 1 .. Len(log)}

\* C18: when swap_memtable has ended and the file of the outgoing WAL is not
\* deleted, that file holds every record that was appended to the WAL.
C18_OutgoingWalFlushed ==
    [][(st = "swapping" /\ st' # "swapping" /\ last' # "crash") =>
            \/ st' = "up" /\ wal.path \notin DOMAIN dir'
            \/ /\ wal.path \in DOMAIN dir'
               /\ Appended \subseteq DiskRecords([n \in {wal.path} |-> dir'[n]])]_vars

\* C19: between the engine's operations the path of the current WAL names a
\* file of the working directory.
C19_CurrentWalExists == st = "up" => wal.path \in DOMAIN dir

\* C20: a put or delete whose WAL append returned Err returns with rw_memtable,
\* ro_memtable and the set of files as they were, and without a swap.
C20_WalErrorLeavesState ==
    [][(Len(log') = Len(log) + 1 /\ last' = "error") =>
            /\ rw_memtable' = rw_memtable
            /\ ro_memtable' = ro_memtable
            /\ DOMAIN dir' = DOMAIN dir
            /\ st' = "up"]_vars

\* C20's case: a put or delete on a memtable that holds entries has returned
\* the Err of its WAL append
C20_Witness == last = "error" /\ st = "up" /\ rw_memtable.entries # <<>>

\* C11: after puts and deletes on a new WAL and a flush, loading the file and
\* iterating it yields one entry per call, in call order, each with the key,
\* the timestamp and the value (None for a delete) of its call, and no more.
C11_WalRoundTrip == phase = "read" => out = rec

\* C11's case: two puts that overflow the writer's buffer, then a delete, were
\* flushed and read back
C11_Witness ==
    /\ phase = "read"
    /\ Len(rec) = 3
    /\ rec[1].value = Some(BigValue)
    /\ rec[2].value = Some(BigValue)
    /\ rec[3].value = None
    /\ Len(out) = 3

\* the record CommonBinaryFormat::read returns for r, whose value is the vector
\* itself
ReadBack(r, next) ==
    [ok |-> TRUE,
     timestamp |-> r.timestamp,
     key |-> r.key,
     value |-> IF r.value = None THEN None ELSE Some(ValueBytes(r.value[1])),
     next |-> next]

\* C16: CommonBinaryFormat::read on the bytes CommonBinaryFormatRef::write
\* produced for a record returns that record (an empty value as Some(empty),
\* not as a tombstone) and leaves the reader at the end of the bytes written.
C16_CodecRoundTrip ==
    (phase = "written" /\ out # <<>>) => out[1] = ReadBack(rec, Len(stream))

\* C16's case: a record with an empty key and an empty value was written and
\* read back
C16_Witness ==
    /\ phase = "written"
    /\ out # <<>>
    /\ rec.key = <<>>
    /\ rec.value = Some([byte |-> 1, len |-> 0])
    /\ out[1].ok
    /\ out[1].value = Some(<<>>)

\* C17: the read that finds the stream ended at a record boundary and the read
\* that finds it ended in the middle of a record give different outcomes.
C17_TruncationDistinct ==
    (/\ out # <<>> /\ ~out[Len(out)].ok
     /\ short_out # <<>> /\ ~short_out[Len(short_out)].ok)
        => out[Len(out)] # short_out[Len(short_out)]

\* load_dir's inner loop on the entries recs: MemTable::put for an entry with a
\* value, MemTable::delete for one without
RECURSIVE ApplyRecords(_, _)
ApplyRecords(m, recs) ==
    IF recs = <<>> THEN m
    ELSE LET e == Head(recs)
         IN  ApplyRecords(IF e.value # None
                          THEN MemPut(m, e.timestamp, e.key, e.value[1])
                          ELSE MemDelete(m, e.timestamp, e.key),
                          Tail(recs))

\* what the current WAL holds: its file in the working directory, then the
\* writer's buffer
CurrentWalAtoms ==
    (IF wal.path \in DOMAIN dir THEN dir[wal.path] ELSE <<>>) \o wal.buf

\* C21: between the engine's operations, the records of the current WAL (its
\* file and its buffer), applied in order to an empty memtable, give exactly
\* the entries of rw_memtable: the same key, value or tombstone, and timestamp.
C21_WalBacksMemtable ==
    st = "up" =>
        ApplyRecords(MemTableNew, WalEntries(CurrentWalAtoms, 0)).entries
            = rw_memtable.entries

\* the records the .wal files of directory d hold, complete on disk
WalRecords(d) == DiskRecords([n \in ScanDir(d, "wal") |-> d[n]])

\* C22: at every step of load_dir, from its scan to its return, every record
\* of the .wal files that were present when it was entered is in a .wal file
\* of the working directory (so a crash at any step loses none).
C22_ReplayKeepsRecords ==
    st \in {"replay", "remove"} => WalRecords(startDir) \subseteq WalRecords(dir)

\* when load_dir returns the Err of an append or of the flush, every .wal file
\* that was present when it was entered is still there, with its content
ReplayErrorKeepsFiles ==
    [][(st = "replay" /\ st' = "down" /\ last' = "init_error") =>
            \A n \in DOMAIN startDir :
                n \in DOMAIN dir' /\ WalRecords(startDir) \subseteq WalRecords(dir')]_vars

\* load_dir removes a file only when its flush has returned Ok
RemoveOnlyAfterFlush ==
    [][(st \in {"replay", "remove"} /\ last' \notin {"panic", "init_error"}
        /\ DOMAIN dir' # DOMAIN dir /\ ~(DOMAIN dir \subseteq DOMAIN dir'))
            => st = "remove" /\ new_wal.buf = <<>>]_vars

\* C23: no step of the engine (init and its replay, put, delete,
\* swap_memtable, the end of the process) removes a .sst file of the working
\* directory or changes its content.
C23_SstImmutable ==
    [][\A n \in DOMAIN dir :
            n.ext = "sst" => (n \in DOMAIN dir' /\ dir'[n] = dir[n])]_vars

\* C23's case: an engine was opened on the directory of a .sst file and of a
\* .wal file with a record (its replay has removed files), then one put or
\* delete has called swap_memtable, which has ended, and the .sst file is there
\* as it was
C23_Witness ==
    /\ last = "panic"
    /\ Len(log) = 1
    /\ Len(log[1].frozen) = 2
    /\ OldSst \in DOMAIN dir
    /\ dir[OldSst] = SstAtoms(OldSstEntries)

=============================================================================
